---- MODULE Spec2Model ----
(***************************************************************************)
(* Formation-morph engine and ornament selection of src/src/App.tsx.       *)
(*                                                                         *)
(* The source file holds two definitions of the application.  The first   *)
(* (lines 1-313) blends the bulk particle pool from read-only formation    *)
(* data through a mix scalar; the second (lines 314-770) moves the         *)
(* displayed buffer in place.  The App state (isDispersed, activePhotoId), *)
(* the handlers and the photo list are the same in both definitions and    *)
(* are modelled once; the two TreeParticles components are modelled side   *)
(* by side, driven by the same App state and the same frame callback.      *)
(*                                                                         *)
(* Numbers.  Positions and the mix scalar are fixed-point numbers with     *)
(* Den = 2^MixBits units per 1.0.  A frame whose new mix is not a multiple *)
(* of 1/Den is outside the precision of the model and is not taken.  A     *)
(* store into a Float32Array rounds to the nearest unit.  The frame delta  *)
(* is a rational number of seconds <<numerator, denominator>>.  A run has  *)
(* at most MaxFrames frames.                                               *)
(***************************************************************************)
EXTENDS Integers, FiniteSets, Sequences, TLC

\* ---------------------------------------------------------------- bounds
MixBits == 4          \* fractional bits of the fixed-point numbers
Foliage == 1          \* stands for CONFIG.counts.foliage (6000)
Lights == 1           \* stands for CONFIG.counts.lights (2000)
Ornaments == 12       \* stands for CONFIG.counts.ornaments (80)
Shapes == 1           \* stands for CONFIG.counts.shapes (250)
MaxFrames == 2        \* frames of one run

\* ------------------------------------------------------------- constants
PhotoModulus == 11    \* the modulus of `(i % 11) + 1`
DocumentedImageCount == 31   \* "1.jpg 到 31.jpg", "循环复用 31 张图"
MixRate == 3          \* `delta * 3.0`
Stride == 3           \* stride={3}: x, y, z per particle
ClusteredScale == 8   \* `isDispersed ? 1.5 : 0.8`, in tenths
DispersedScale == 15  \* `isDispersed ? 1.5 : 0.8`, in tenths
FocusScale == 45      \* `destScale = 4.5`, in tenths
FocusDistance == 8    \* `camDir.multiplyScalar(8)`
DampRate == 4         \* `delta * 4`
UnitScale == 10       \* scale 1 of a new THREE.Group, in tenths

RECURSIVE Pow2(_)
Pow2(n) == IF n = 0 THEN 1 ELSE 2 * Pow2(n - 1)

Den == Pow2(MixBits)
One == Den            \* the number 1.0

Null == -1            \* JavaScript null of `number | null`

\* Frame deltas the host can supply: 1/12 s and a slow frame of 1/2 s
\* (THREE.Clock.getDelta is not clamped).
Deltas == { <<1, 12>>, <<1, 2>> }

totalCount == Foliage + Lights
FlatIndex == 0 .. (totalCount * Stride - 1)
PhotoIndex == 0 .. (Ornaments - 1)
\* The photos whose transform the model follows; every photo runs the same
\* callback on its own ref.
FramedPhotos == {0, 1}
ShapeIndex == 0 .. (Shapes - 1)

\* ------------------------------------------------------ numeric helpers
\* x / d rounded to the nearest integer (d > 0).
RoundDiv(x, d) == (2 * x + d) \div (2 * d)

\* delta * k as a fixed-point number.
Scaled(delta, k) == (delta[1] * k * Den) \div delta[2]
ScaledExact(delta, k) == (delta[1] * k * Den) % delta[2] = 0

\* THREE.MathUtils.lerp(x, y, t) = (1 - t) * x + t * y on fixed-point numbers.
lerp(x, y, t) == ((One - t) * x + t * y) \div Den
lerpExact(x, y, t) == ((One - t) * x + t * y) % Den = 0

\* ---------------------------------------------------- formation samples
\* calculateTargetPosition draws from Math.random().  The draws of one run
\* are a pseudo-random sequence fixed by its seed; the model keeps a short
\* list of points each branch can return and lets the seed choose where in
\* the list the draws of particle i fall.  The 'tree' points lie on the cone
\* of height 18 and radius 7.5 (jitter +-0.25), the 'dispersed' points in the
\* shell of radius 15..40.
TreeSamples == << <<0, 9, 0>>, <<3, -3, 4>>, <<7, -9, 2>> >>
DispersedSamples == << <<12, 16, 0>>, <<-10, 10, 10>>, <<0, -20, 0>>, <<15, 0, 0>> >>
Seeds == {0, 1, 2}

calculateTargetPosition(i, type, seed) ==
    IF type = "tree"
    THEN TreeSamples[((seed + i) % Len(TreeSamples)) + 1]
    ELSE DispersedSamples[((seed + 2 * i) % Len(DispersedSamples)) + 1]

\* The flat Float32Array filled from one Vector3 per particle.
Flatten(vecs) == [k \in FlatIndex |-> vecs[k \div Stride][(k % Stride) + 1] * One]

VARIABLES
    isDispersed,        \* App: useState(false)
    activePhotoId,      \* App: useState<number | null>(null)
    photos,             \* App: useMemo list, the file number of each slot
    photoData,          \* InteractablePhoto: useMemo {treePos, dispersedPos}
    sourceData,         \* first TreeParticles: {tree, dispersed}
    bufferPositions,    \* first TreeParticles: the array given to <Points>
    mixRef,             \* first TreeParticles: useRef(0)
    shapeMixRef,        \* first ShapeMesh: useRef(0), one per shape
    treePositions,      \* second TreeParticles: formation AND <Points> array
    dispersedPositions, \* second TreeParticles
    treeConstructed,    \* history: treePositions as built by useMemo
    photoPosition,      \* InteractablePhoto: ref.current.position
    photoScale,         \* InteractablePhoto: ref.current.scale, in tenths
    pending,            \* host: the useFrame callbacks still to run this frame
    frameDelta,         \* host: the delta of the frame in progress
    frames,             \* history: the number of frames so far
    prevShapeMix,       \* history: shapeMixRef before the last handler
    prevTree2,          \* history: treePositions before the last handler
    prevPosition,       \* history: photoPosition before the last handler
    prevScale,          \* history: photoScale before the last handler
    lastOp,             \* history: the handler that ran last
    lastIndex,          \* history: the index of the last photo click
    prevDispersed,      \* history: isDispersed before the last handler
    prevActive,         \* history: activePhotoId before the last handler
    prevMix             \* history: mixRef before the last handler

appVars == <<isDispersed, activePhotoId>>
memoVars == <<photos, photoData>>
poolVars == <<sourceData, bufferPositions, mixRef, shapeMixRef>>
pool2Vars == <<treePositions, dispersedPositions, treeConstructed>>
photoVars == <<photoPosition, photoScale>>
frameVars == <<pending, frameDelta>>
histVars == <<lastOp, lastIndex, prevDispersed, prevActive, prevMix,
              prevPosition, prevScale, frames, prevShapeMix, prevTree2>>
vars == <<appVars, memoVars, poolVars, pool2Vars, photoVars, frameVars, histVars>>

\* ------------------------------------------------------------ App render
\* `!activePhotoId`: JavaScript negation, true for null and for 0.
Not(v) == v = Null \/ v = 0

\* Variant: the two comparisons of lines 185-186 exchanged.
isActiveSwapped(index) == activePhotoId # Null /\ activePhotoId # index

\* Variant: `activeId && activeId !== index`, truthiness instead of !== null.
isOtherActiveTruthy(index) == ~Not(activePhotoId) /\ activePhotoId # index

\* InteractablePhoto: derived from the shared activeId prop.
isActive(index) == activePhotoId = index
isOtherActive(index) == activePhotoId # Null /\ activePhotoId # index

\* Overlay prop hasActivePhoto={activePhotoId !== null}
hasActivePhoto == activePhotoId # Null

\* OrbitControls props enabled={!activePhotoId}, autoRotate={!activePhotoId}
controlsEnabled == Not(activePhotoId)
autoRotate == Not(activePhotoId)
isInteractionLocked == ~controlsEnabled

\* Array.from({ length }, (_, i) => `/photos/${(i % 11) + 1}.jpg`)
photoList == [i \in PhotoIndex |-> (i % PhotoModulus) + 1]

\* Canvas camera={{ position: [0, 0, 35] }}, looking at the origin.  The
\* pose is held fixed: the orbit of the camera is the work of OrbitControls.
cameraPosition == <<0, 0, 35>>
cameraDirection == <<0, 0, -1>>

\* Variant: the two resting scales exchanged.
destScaleSwapped(index) ==
    IF isActive(index) THEN FocusScale
    ELSE IF isOtherActive(index) THEN 0
    ELSE IF isDispersed THEN ClusteredScale ELSE DispersedScale

\* InteractablePhoto.useFrame: destination scale of the frame, in tenths.
destScale(index) ==
    IF isActive(index) THEN FocusScale
    ELSE IF isOtherActive(index) THEN 0
    ELSE IF isDispersed THEN DispersedScale ELSE ClusteredScale

\* InteractablePhoto.useFrame: destination position of the frame.
\*   dest = isDispersed ? dispersedPos : treePos
\*   if (isActive) dest = cam.position.clone().add(camDir.multiplyScalar(8))
dest(index) ==
    IF isActive(index)
    THEN [c \in 1 .. Stride |->
             (cameraPosition[c] + cameraDirection[c] * FocusDistance) * One]
    ELSE IF isDispersed THEN photoData[index].dispersedPos
    ELSE photoData[index].treePos

\* The ornament state of the specification, read off the same branches.
OrnamentState(index) ==
    IF isActive(index) THEN "Active"
    ELSE IF isOtherActive(index) THEN "Suppressed"
    ELSE "Idle"

\* ----------------------------------------------------------------- Init
Init ==
    /\ isDispersed = FALSE
    /\ activePhotoId = Null
    /\ photos = photoList
    /\ \E seed \in Seeds :
          LET t == [i \in 0 .. (totalCount - 1) |-> calculateTargetPosition(i, "tree", seed)]
              d == [i \in 0 .. (totalCount - 1) |-> calculateTargetPosition(i, "dispersed", seed)]
          IN  /\ sourceData = [tree |-> Flatten(t), dispersed |-> Flatten(d)]
              /\ bufferPositions = Flatten(t)   \* Float32Array.from(sourceData.tree)
              \* the second definition is mounted on the same draws
              /\ treePositions = Flatten(t)
              /\ dispersedPositions = Flatten(d)
              /\ treeConstructed = Flatten(t)
              /\ photoData =
                     [i \in PhotoIndex |->
                         [treePos |-> [c \in 1 .. Stride |->
                              calculateTargetPosition(i, "tree", seed)[c] * One],
                          dispersedPos |-> [c \in 1 .. Stride |->
                              calculateTargetPosition(i, "dispersed", seed)[c] * One]]]
    /\ mixRef = 0
    /\ shapeMixRef = [s \in ShapeIndex |-> 0]
    \* a new THREE.Group: position (0, 0, 0), scale (1, 1, 1)
    /\ photoPosition = [i \in FramedPhotos |-> [c \in 1 .. Stride |-> 0]]
    /\ photoScale = [i \in FramedPhotos |-> [c \in 1 .. Stride |-> UnitScale * One]]
    /\ frames = 0
    /\ pending = {}
    /\ frameDelta = <<0, 1>>
    /\ prevShapeMix = shapeMixRef
    /\ prevTree2 = treePositions
    /\ prevPosition = photoPosition
    /\ prevScale = photoScale
    /\ lastOp = "mount"
    /\ lastIndex = Null
    /\ prevDispersed = FALSE
    /\ prevActive = Null
    /\ prevMix = 0

Record(op, index) ==
    /\ frames' = IF op \in {"tick", "frame"} THEN frames + 1 ELSE frames
    /\ prevShapeMix' = shapeMixRef
    /\ prevTree2' = treePositions
    /\ lastOp' = op
    /\ lastIndex' = index
    /\ prevDispersed' = isDispersed
    /\ prevActive' = activePhotoId
    /\ prevMix' = mixRef
    /\ prevPosition' = photoPosition
    /\ prevScale' = photoScale

\* ------------------------------------------------------------- handlers
\* Variant: the selection is reset to slot 0 instead of to null.
handleToggleResetZero ==
    /\ isDispersed' = ~isDispersed
    /\ activePhotoId' = 0

\* Overlay toggle: setIsDispersed(p => !p); setActivePhotoId(null)
handleToggle ==
    /\ isDispersed' = ~isDispersed
    /\ activePhotoId' = Null

\* The button is rendered only when !hasActivePhoto.
Toggle ==
    /\ ~hasActivePhoto
    /\ handleToggle
    /\ Record("toggle", Null)
    /\ UNCHANGED <<memoVars, poolVars, pool2Vars, photoVars, frameVars>>

\* Variant: the early return `if (!isDispersed) return` is missing.
onClickPhotoNoGuard(index) ==
    /\ activePhotoId' = IF activePhotoId = index THEN Null ELSE index
    /\ UNCHANGED isDispersed

\* Variant: `setActiveId(activeId !== null ? null : index)`, a click while
\* any photo is focused only closes the focus.
onClickPhotoCloseAny(index) ==
    IF ~isDispersed
    THEN UNCHANGED appVars
    ELSE /\ activePhotoId' = IF activePhotoId # Null THEN Null ELSE index
         /\ UNCHANGED isDispersed

\* InteractablePhoto onClick:
\*   if (!isDispersed) return; setActiveId(isActive ? null : index)
onClickPhoto(index) ==
    IF ~isDispersed
    THEN UNCHANGED appVars
    ELSE /\ activePhotoId' = IF isActive(index) THEN Null ELSE index
         /\ UNCHANGED isDispersed

ClickPhoto(index) ==
    /\ onClickPhoto(index)
    /\ Record("click", index)
    /\ UNCHANGED <<memoVars, poolVars, pool2Vars, photoVars, frameVars>>

\* TreeParticles onClick: if (!isDispersed) onClickTree() = setIsDispersed(true)
onClickTree ==
    /\ ~isDispersed
    /\ isDispersed' = TRUE
    /\ UNCHANGED activePhotoId

ClickTree ==
    /\ onClickTree
    /\ Record("clickTree", Null)
    /\ UNCHANGED <<memoVars, poolVars, pool2Vars, photoVars, frameVars>>

\* ---------------------------------------------------------------- frame
targetMix == IF isDispersed THEN One ELSE 0

\* First TreeParticles.useFrame: new mix, then every coordinate from the
\* read-only source data.
nextMix(mix, delta) == lerp(mix, targetMix, Scaled(delta, MixRate))

blend(mix) ==
    [k \in FlatIndex |-> lerp(sourceData.tree[k], sourceData.dispersed[k], mix)]

TreeParticlesFrame(delta) ==
    /\ mixRef' = nextMix(mixRef, delta)
    /\ bufferPositions' = blend(mixRef')
    /\ UNCHANGED sourceData

\* First ShapeMesh.useFrame: its own mixRef, same update.
ShapeMeshFrame(delta) ==
    shapeMixRef' = [s \in ShapeIndex |-> nextMix(shapeMixRef[s], delta)]

\* Second TreeParticles.useFrame: currentPositions is the array given to
\* <Points positions={treePositions}>, that is treePositions itself.
\*   currentPositions[ix] += (target[ix] - currentPositions[ix]) * speed
stepToward(cur, target, delta) ==
    cur + RoundDiv((target - cur) * Scaled(delta, MixRate), Den)

TreeParticlesFrame2(delta) ==
    LET target == IF isDispersed THEN dispersedPositions ELSE treePositions
    IN  /\ treePositions' =
             [k \in FlatIndex |-> stepToward(treePositions[k], target[k], delta)]
        /\ UNCHANGED <<dispersedPositions, treeConstructed>>

\* InteractablePhoto.useFrame, the manual damping of the first definition:
\*   position.x += (dest.x - position.x) * delta * 4      (y, z alike)
\*   scale.x += (destScale - scale.x) * delta * 4          (y alike)
\*   scale.z += (1 - scale.z) * delta * 4
\* The product is rounded to the nearest unit of the fixed-point grid.
damp(cur, target, delta) ==
    cur + RoundDiv((target - cur) * delta[1] * DampRate, delta[2])

positionAfter(index, position, delta) ==
    [c \in 1 .. Stride |-> damp(position[c], dest(index)[c], delta)]

scaleAfter(index, scale, delta) ==
    [c \in 1 .. Stride |->
        damp(scale[c],
             IF c = Stride THEN UnitScale * One ELSE destScale(index) * One,
             delta)]

InteractablePhotoFrame(delta) ==
    /\ photoPosition' =
          [i \in FramedPhotos |-> positionAfter(i, photoPosition[i], delta)]
    /\ photoScale' =
          [i \in FramedPhotos |-> scaleAfter(i, photoScale[i], delta)]

\* One frame: the host calls every useFrame callback with the same delta.
Tick(delta) ==
    /\ frames < MaxFrames
    /\ ScaledExact(delta, MixRate)
    /\ lerpExact(mixRef, targetMix, Scaled(delta, MixRate))
    /\ \A s \in ShapeIndex : lerpExact(shapeMixRef[s], targetMix, Scaled(delta, MixRate))
    /\ TreeParticlesFrame(delta)
    /\ ShapeMeshFrame(delta)
    /\ TreeParticlesFrame2(delta)
    /\ InteractablePhotoFrame(delta)
    /\ Record("tick", Null)
    /\ UNCHANGED <<appVars, memoVars, frameVars>>

Next ==
    \/ Toggle
    \/ \E index \in PhotoIndex : ClickPhoto(index)
    \/ ClickTree
    \/ \E delta \in Deltas : Tick(delta)

Spec == Init /\ [][Next]_vars

\* ------------------------------------------------- a frame, step by step
\* The host keeps one subscriber per useFrame call and runs them one after
\* the other inside one animation frame.  SpecFrame follows a frame one
\* callback at a time, in any order; event handlers run between frames.
Subscribers ==
    { <<"TreeParticles", 0>>, <<"TreeParticles2", 0>> }
        \cup { <<"ShapeMesh", s>> : s \in ShapeIndex }
        \cup { <<"InteractablePhoto", i>> : i \in FramedPhotos }

\* Variant: the shape reads the mixRef of TreeParticles instead of its own.
ShapeMeshCallbackShared(s, delta) ==
    shapeMixRef' = [shapeMixRef EXCEPT ![s] = nextMix(mixRef, delta)]

\* ShapeMesh.useFrame of shape s.
ShapeMeshCallback(s, delta) ==
    shapeMixRef' = [shapeMixRef EXCEPT ![s] = nextMix(shapeMixRef[s], delta)]

\* InteractablePhoto.useFrame of photo index.
InteractablePhotoCallback(index, delta) ==
    /\ photoPosition' = [photoPosition EXCEPT
                            ![index] = positionAfter(index, photoPosition[index], delta)]
    /\ photoScale' = [photoScale EXCEPT
                         ![index] = scaleAfter(index, photoScale[index], delta)]

BeginFrame(delta) ==
    /\ pending = {}
    /\ frames < MaxFrames
    /\ ScaledExact(delta, MixRate)
    /\ lerpExact(mixRef, targetMix, Scaled(delta, MixRate))
    /\ \A s \in ShapeIndex : lerpExact(shapeMixRef[s], targetMix, Scaled(delta, MixRate))
    /\ pending' = Subscribers
    /\ frameDelta' = delta
    /\ Record("frame", Null)
    /\ UNCHANGED <<appVars, memoVars, poolVars, pool2Vars, photoVars>>

RunCallback(sub) ==
    /\ sub \in pending
    /\ pending' = pending \ {sub}
    /\ CASE sub[1] = "TreeParticles" ->
              /\ TreeParticlesFrame(frameDelta)
              /\ UNCHANGED <<shapeMixRef, pool2Vars, photoVars>>
         [] sub[1] = "TreeParticles2" ->
              /\ TreeParticlesFrame2(frameDelta)
              /\ UNCHANGED <<poolVars, photoVars>>
         [] sub[1] = "ShapeMesh" ->
              /\ ShapeMeshCallback(sub[2], frameDelta)
              /\ UNCHANGED <<sourceData, bufferPositions, mixRef, pool2Vars, photoVars>>
         [] sub[1] = "InteractablePhoto" ->
              /\ InteractablePhotoCallback(sub[2], frameDelta)
              /\ UNCHANGED <<poolVars, pool2Vars>>
    /\ UNCHANGED <<appVars, memoVars, frameDelta, histVars>>

\* An event handler between two frames.
BetweenFrames(op) ==
    /\ pending = {}
    /\ lastOp' = op
    /\ UNCHANGED <<lastIndex, prevDispersed, prevActive, prevMix, prevPosition,
                   prevScale, frames, prevShapeMix, prevTree2>>
    /\ UNCHANGED <<memoVars, poolVars, pool2Vars, photoVars, frameVars>>

FrameToggle ==
    /\ ~hasActivePhoto
    /\ handleToggle
    /\ BetweenFrames("toggle")

FrameClickPhoto(index) ==
    /\ onClickPhoto(index)
    /\ BetweenFrames("click")

FrameClickTree ==
    /\ onClickTree
    /\ BetweenFrames("clickTree")

NextFrame ==
    \/ FrameToggle
    \/ \E index \in PhotoIndex : FrameClickPhoto(index)
    \/ FrameClickTree
    \/ \E delta \in Deltas : BeginFrame(delta)
    \/ \E sub \in Subscribers : RunCallback(sub)

SpecFrame == Init /\ [][NextFrame]_vars

TypeOK ==
    /\ isDispersed \in BOOLEAN
    /\ activePhotoId \in PhotoIndex \cup {Null}
    /\ mixRef \in Int
    /\ pending \subseteq Subscribers
    /\ frames \in 0 .. MaxFrames
    /\ lastOp \in {"mount", "toggle", "click", "clickTree", "tick", "frame"}

\* =================================================================== C1
\* C1: in every reachable state at most one ornament is Active.
ActiveSet == { i \in PhotoIndex : OrnamentState(i) = "Active" }

C1_AtMostOneActive == Cardinality(ActiveSet) <= 1

\* A click moved the focus from one ornament to another one.
C1_Witness ==
    /\ lastOp = "click"
    /\ prevActive \in PhotoIndex
    /\ prevActive # lastIndex
    /\ ActiveSet = {lastIndex}

\* =================================================================== C2
\* C2: the camera controls are locked (disabled, no auto-rotation) exactly
\* when an ornament is active, for every index of the pool, index 0 included.
C2_LockedIffActive ==
    /\ isInteractionLocked <=> (activePhotoId # Null)
    /\ autoRotate <=> (activePhotoId = Null)

\* =================================================================== C3
\* C3: every coordinate of the displayed buffer of a bulk pool equals
\* formationA + (formationB - formationA) * mix, formationA and formationB
\* being the formations as constructed.
Interpolated(a, b, mix) == a + ((b - a) * mix) \div Den

C3_BufferIsInterpolation ==
    \A k \in FlatIndex :
        /\ bufferPositions[k] =
               Interpolated(sourceData.tree[k], sourceData.dispersed[k], mixRef)
        /\ treePositions[k] =
               Interpolated(treeConstructed[k], dispersedPositions[k], mixRef)

\* The first definition alone: its buffer is the interpolation of its
\* read-only source data after every step.
FirstPoolIsInterpolation ==
    \A k \in FlatIndex :
        bufferPositions[k] =
            Interpolated(sourceData.tree[k], sourceData.dispersed[k], mixRef)

\* =================================================================== C4
\* C4: no step after construction changes an element of a formation buffer.
C4_FormationsNeverWritten ==
    [][ /\ sourceData' = sourceData
        /\ treePositions' = treePositions
        /\ dispersedPositions' = dispersedPositions ]_vars

\* =================================================================== C5
\* C5: mix stays within [0, 1] and every frame moves it toward its target
\* without passing it, strictly while it has not reached the target.
TowardTarget(before, after) ==
    IF isDispersed
    THEN /\ before <= after
         /\ after <= One
         /\ before < One => before < after
    ELSE /\ after <= before
         /\ 0 <= after
         /\ 0 < before => after < before

C5_MixMonotoneNoOvershoot ==
    /\ mixRef \in 0 .. One
    /\ \A s \in ShapeIndex : shapeMixRef[s] \in 0 .. One
    /\ lastOp = "tick" => TowardTarget(prevMix, mixRef)

C7_SelectClusteredNoOp ==
    (lastOp = "click" /\ ~prevDispersed) =>
        (activePhotoId = prevActive /\ isDispersed = prevDispersed)

C7_Witness ==
    /\ lastOp = "click"
    /\ lastIndex = Ornaments - 1
    /\ ~prevDispersed
    /\ ~isDispersed
    /\ activePhotoId = Null

\* =================================================================== C8
\* C8: in Dispersed mode a click on index sets activePhotoId to index when it
\* was null or another index and to null when it was index; the mode stays.
C8_SelectToggles ==
    (lastOp = "click" /\ prevDispersed) =>
        /\ isDispersed
        /\ activePhotoId = IF prevActive = lastIndex THEN Null ELSE lastIndex

\* Ornament 0 was active and a click on another one took the focus.
C8_Witness ==
    /\ lastOp = "click"
    /\ prevDispersed
    /\ prevActive = 0
    /\ lastIndex # 0
    /\ activePhotoId = lastIndex

\* =================================================================== C9
\* C9: when an ornament is Active every other one is Suppressed with
\* destination scale 0; when none is Active all are Idle.  The scenario of
\* select(1) in Clustered mode, in Dispersed mode and once more.
AllIdle == \A j \in PhotoIndex : OrnamentState(j) = "Idle"

C9_StatesFollowSelection ==
    /\ \A k \in PhotoIndex :
          OrnamentState(k) = "Active" =>
              \A j \in PhotoIndex \ {k} :
                  OrnamentState(j) = "Suppressed" /\ destScale(j) = 0
    /\ ActiveSet = {} => AllIdle
    /\ (lastOp = "click" /\ ~prevDispersed) => AllIdle
    /\ (lastOp = "click" /\ prevDispersed /\ prevActive = Null /\ lastIndex = 1) =>
          /\ OrnamentState(1) = "Active"
          /\ OrnamentState(0) = "Suppressed"
          /\ OrnamentState(2) = "Suppressed"
    /\ (lastOp = "click" /\ prevDispersed /\ prevActive = 1 /\ lastIndex = 1) =>
          AllIdle

\* Ornament 0 holds the focus: all the others are hidden.
C9_Witness ==
    /\ lastOp = "click"
    /\ OrnamentState(0) = "Active"
    /\ \A j \in PhotoIndex \ {0} : OrnamentState(j) = "Suppressed"

\* ================================================================== C10
\* C10: slot i shows source image (i mod imageSourceCount), the source images
\* being the 31 files 1.jpg .. 31.jpg the source names.
C10_SlotImageIsIndexModCount ==
    \A i \in PhotoIndex :
        /\ photos[i] = (i % DocumentedImageCount) + 1
        /\ photos[i] \in 1 .. DocumentedImageCount

\* ================================================================== C13
\* C13 as stated: an Idle ornament's destination is its treePos in Clustered
\* mode and its dispersedPos in Dispersed mode, and its destination scale is
\* one resting value, the same in both modes.
IdleSet == { i \in PhotoIndex : OrnamentState(i) = "Idle" }

C13_IdleDestinationOneScale ==
    \A i \in IdleSet :
        /\ dest(i) = IF isDispersed THEN photoData[i].dispersedPos
                     ELSE photoData[i].treePos
        /\ destScale(i) = ClusteredScale

\* C13 amended: the destination position as stated; the destination scale is
\* 0.8 in Clustered mode and 1.5 in Dispersed mode.
C13_IdleDestinationPerMode ==
    \A i \in IdleSet :
        /\ dest(i) = IF isDispersed THEN photoData[i].dispersedPos
                     ELSE photoData[i].treePos
        /\ destScale(i) = IF isDispersed THEN DispersedScale ELSE ClusteredScale

\* A frame ran in Dispersed mode with every ornament Idle.
C13_Witness ==
    /\ lastOp = "tick"
    /\ isDispersed
    /\ IdleSet = PhotoIndex

\* ================================================================== C14
\* C14: an active ornament implies Dispersed mode; a tree click starts in
\* Clustered mode, ends in Dispersed mode and leaves activePhotoId alone.
C14_ActiveImpliesDispersed ==
    /\ activePhotoId # Null => isDispersed
    /\ prevActive # Null => prevDispersed
    /\ lastOp = "clickTree" =>
          (~prevDispersed /\ isDispersed /\ activePhotoId = prevActive)

\* The tree was clicked open and a photo was then selected.
C14_Witness ==
    /\ lastOp = "click"
    /\ prevActive = Null
    /\ activePhotoId = Ornaments - 1
    /\ isDispersed

\* ================================================================== C12
\* C12: on every frame, for any delta, each coordinate of an ornament's
\* position and scale ends between its value before the frame and the
\* destination value: no overshoot, no change of sign of the distance.
Between(before, after, target) ==
    \/ before <= after /\ after <= target
    \/ target <= after /\ after <= before

scaleTarget(index, c) ==
    IF c = Stride THEN UnitScale * One ELSE destScale(index) * One

C12_DampNoOvershoot ==
    lastOp = "tick" =>
        \A i \in FramedPhotos : \A c \in 1 .. Stride :
            /\ Between(prevPosition[i][c], photoPosition[i][c], dest(i)[c])
            /\ Between(prevScale[i][c], photoScale[i][c], scaleTarget(i, c))

\* ================================================================== C11
\* C11: within one frame the callbacks are order-insensitive.  Whatever the
\* order in which the host runs them, a callback that has not run yet has
\* left its entity as it was at the start of the frame, and one that has run
\* has taken it to the value computed from the formation data, the App state
\* and that entity's own value at the start of the frame; so every order
\* ends the frame in the same state.
InFrame == lastOp = "frame"

Done(sub) == sub \notin pending

C11_OrderInsensitive ==
    InFrame =>
        /\ mixRef = IF Done(<<"TreeParticles", 0>>)
                    THEN nextMix(prevMix, frameDelta) ELSE prevMix
        /\ bufferPositions = blend(prevMix) \/ bufferPositions = blend(mixRef)
        /\ Done(<<"TreeParticles", 0>>) => bufferPositions = blend(mixRef)
        /\ \A s \in ShapeIndex :
              shapeMixRef[s] = IF Done(<<"ShapeMesh", s>>)
                               THEN nextMix(prevShapeMix[s], frameDelta)
                               ELSE prevShapeMix[s]
        /\ \A k \in FlatIndex :
              treePositions[k] =
                  IF Done(<<"TreeParticles2", 0>>)
                  THEN stepToward(prevTree2[k],
                                  IF isDispersed THEN dispersedPositions[k]
                                  ELSE prevTree2[k],
                                  frameDelta)
                  ELSE prevTree2[k]
        /\ \A i \in FramedPhotos :
              /\ photoPosition[i] =
                    IF Done(<<"InteractablePhoto", i>>)
                    THEN positionAfter(i, prevPosition[i], frameDelta)
                    ELSE prevPosition[i]
              /\ photoScale[i] =
                    IF Done(<<"InteractablePhoto", i>>)
                    THEN scaleAfter(i, prevScale[i], frameDelta)
                    ELSE prevScale[i]

\* The second frame of a run is complete, with ornament 1 in focus and
\* ornament 0 suppressed, and both have moved.
C11_Witness ==
    /\ InFrame
    /\ pending = {}
    /\ frames = 2
    /\ activePhotoId = 1
    /\ \A i \in FramedPhotos : photoPosition[i] # prevPosition[i]
    /\ mixRef # prevMix
====
